---- MODULE Spec2Model ----
(***************************************************************************)
(* A state-machine model of the MyOS "second brain" app (src/App.tsx and   *)
(* the gateway wrappers under src/unnamed).  The three persisted           *)
(* collections (memories, tasks, availableCategories), the handlers that   *)
(* mutate them, the asynchronous classification / planning request, the    *)
(* agenda date arithmetic and the chat placeholder are modelled.           *)
(*                                                                         *)
(* src/App.tsx holds two revisions of the component one after the other    *)
(* (lines 1-650 and 651-2160); their handlers agree statement for          *)
(* statement, and the definitions below follow the first.                  *)
(***************************************************************************)
EXTENDS Integers, Sequences, FiniteSets, TLC

(***************************************************************************)
(* JavaScript values                                                       *)
(***************************************************************************)
\* The value `undefined`: a missing field, an out-of-range array read.
Undefined == "undefined"
\* The function Object, which `({})["constructor"]` evaluates to: a lookup in
\* a plain object literal also finds the properties of Object.prototype.
ObjectFn == "[Function: Object]"
\* String(Object), the property key the function is coerced to.
ObjectFnKey == "function Object() { [native code] }"
\* Property names every plain object inherits from Object.prototype.
ObjectPrototypeKeys == {"constructor"}

\* Boolean coercion: `if (v)` / `!v`.
Truthy(v) == v \notin {Undefined, ""}

\* ToPropertyKey: the string a value is coerced to when used as `obj[v]`.
ToPropertyKey(v) == IF v = ObjectFn THEN ObjectFnKey ELSE v

\* Array.prototype.includes
Includes(arr, v) == \E i \in 1..Len(arr) : arr[i] = v

\* arr[0]: undefined on an empty array.
First(arr) == IF Len(arr) = 0 THEN Undefined ELSE arr[1]

\* String.prototype.trim on the names the model types in: a name is padded
\* with one leading or trailing blank, or is blank altogether.
Trim(s) ==
    CASE s = " "       -> ""
      [] s = " Japan"  -> "Japan"
      [] s = "Life "   -> "Life"
      [] OTHER         -> s

(***************************************************************************)
(* Sentinels of the program                                                *)
(***************************************************************************)
General == "General"
ManualText == "Manual Project Creation"
All == "All"

(***************************************************************************)
(* Bounds and input universes                                              *)
(***************************************************************************)
MaxMemories == 2
MaxItems == 2
MaxCategories == 2
MaxTasks == 2
MaxNow == 2
MaxClock == 30
MaxChats == 2

\* Names the user types for categories (handleAddCategory trims them).
CategoryInputs == {"", "Travel", "Life "}
\* New names handed to handleUpdateCategoryName.
CategoryRenames == {" ", "Travel", "Life"}
\* Names the user types for projects.
ProjectInputs == {" ", " Japan", General}
\* The same, with a second name and an unpadded one (SpecProjects).
ProjectNames == ProjectInputs \cup {"Japan", "Korea"}
\* Texts typed into the capture box.
NoteText == "buy milk"
GoalText == "plan to run"
InputTexts == {" ", NoteText}

ItemTitles == <<"A", "B", "C", "D">>

(***************************************************************************)
(* getProjectHierarchy: an object whose keys keep insertion order, as a    *)
(* sequence of entries [cat, projs].                                       *)
(***************************************************************************)
HasKey(h, k) == \E i \in 1..Len(h) : h[i].cat = k

HGet(h, k) == h[CHOOSE i \in 1..Len(h) : h[i].cat = k].projs

\* hierarchy[k] = v : replaces the value of an existing key in place, appends
\* a new key.
HSet(h, k, v) ==
    IF HasKey(h, k)
    THEN [i \in 1..Len(h) |-> IF h[i].cat = k THEN [cat |-> k, projs |-> v] ELSE h[i]]
    ELSE Append(h, [cat |-> k, projs |-> v])

\* availableCategories.forEach(cat => hierarchy[cat] = [])
RECURSIVE HierarchyOfCategories(_, _)
HierarchyOfCategories(cats, h) ==
    IF cats = <<>> THEN h
    ELSE HierarchyOfCategories(Tail(cats), HSet(h, Head(cats), <<>>))

\* The body of memories.forEach(m => ...) for one Memory.
HierarchyAddMemory(h, m) ==
    IF Truthy(m.rootCategory) /\ Truthy(m.project) /\ m.project # General
    THEN LET k  == ToPropertyKey(m.rootCategory)
             h1 == IF ~HasKey(h, k) THEN HSet(h, k, <<>>) ELSE h
         IN  IF ~Includes(HGet(h1, k), m.project)
             THEN HSet(h1, k, Append(HGet(h1, k), m.project))
             ELSE h1
    ELSE h

RECURSIVE HierarchyOfMemories(_, _)
HierarchyOfMemories(mems, h) ==
    IF mems = <<>> THEN h
    ELSE HierarchyOfMemories(Tail(mems), HierarchyAddMemory(h, Head(mems)))

getProjectHierarchy(cats, mems) ==
    HierarchyOfMemories(mems, HierarchyOfCategories(cats, <<>>))

(***************************************************************************)
(* Reconciliation of a classification result (handleProcessInput).         *)
(***************************************************************************)
\* projs.forEach(p => projectToCategoryMap[p] = cat) for one entry.
RECURSIVE MapProjects(_, _, _)
MapProjects(projs, cat, map) ==
    IF projs = <<>> THEN map
    ELSE MapProjects(Tail(projs), cat,
            [p \in DOMAIN map \cup {Head(projs)} |->
                IF p = Head(projs) THEN cat ELSE map[p]])

\* Object.entries(hierarchy).forEach(([cat, projs]) => ...): a later entry
\* overwrites an earlier one for the same project.
RECURSIVE MapEntries(_, _)
MapEntries(h, map) ==
    IF h = <<>> THEN map
    ELSE MapEntries(Tail(h), MapProjects(Head(h).projs, Head(h).cat, map))

EmptyMap == [p \in {} |-> Undefined]

projectToCategoryMap(h) == MapEntries(h, EmptyMap)

\* projectToCategoryMap[p] on a plain object: an own property, else a property
\* inherited from Object.prototype, else undefined.
MapLookup(map, p) ==
    IF p \in DOMAIN map THEN map[p]
    ELSE IF p \in ObjectPrototypeKeys THEN ObjectFn
    ELSE Undefined

\* if (!availableCategories.includes(finalCategory)) finalCategory = availableCategories[0]
CategoryFallback(cats, c) == IF ~Includes(cats, c) THEN First(cats) ELSE c

\* A reconciliation that keeps the category the gateway declared.
DeclaredCategory(map, res) == res.rootCategory

\* The known-project branch: finalCategory = projectToCategoryMap[finalProject]
KnownProjectCategory(map, res) == MapLookup(map, res.project)

\* A reconciliation that takes the owning category of a known project and
\* files the Memory under "General".
ReconcileOwnerOnly(cats, h, res) ==
    LET map == projectToCategoryMap(h) IN
    IF res.project = General \/ ~Truthy(MapLookup(map, res.project))
    THEN [rootCategory |-> CategoryFallback(cats, res.rootCategory), project |-> General]
    ELSE [rootCategory |-> KnownProjectCategory(map, res), project |-> General]

\* Lines 319-328: the (finalCategory, finalProject) pair.
Reconcile(cats, h, res) ==
    LET map == projectToCategoryMap(h) IN
    IF res.project = General
    THEN [rootCategory |-> CategoryFallback(cats, res.rootCategory), project |-> General]
    ELSE IF ~Truthy(MapLookup(map, res.project))
    THEN [rootCategory |-> CategoryFallback(cats, res.rootCategory), project |-> General]
    ELSE [rootCategory |-> KnownProjectCategory(map, res), project |-> res.project]

(***************************************************************************)
(* State                                                                   *)
(***************************************************************************)
VARIABLES
    memories,              \* Memory[]: [id, originalText, rootCategory, project, structuredContent]
    tasks,                 \* Task[]: [id, title, day, status]
    availableCategories,   \* string[]
    selectedRootCategory,  \* the Memory Browser's category filter
    newProjectCategory,    \* the category picked in the New Project modal
    isProcessing,          \* the Process button's busy flag
    request,               \* the closure of the handleProcessInput call awaiting the gateway
    now,                   \* Date.now()
    lastOp,                \* the handler that ran last, with its arguments
    selectedDate,          \* the agenda's selected date, in hours since the epoch of the model
    clock,                 \* the wall clock, in hours since the epoch of the model
    coachChat,             \* ChatMessage[]: [role, text]
    chatRequests,          \* chat requests awaiting getAgentResponse, by send order
    inputText,             \* the text of the input box, a sequence of characters
    selectionStart,        \* the input box's selection: characters before its start
    selectionEnd,          \* ... and before its end (the cursor when the two are equal)
    loadedShape,           \* what kind of JSON value each collection was loaded as
    editingCard            \* the MemoryCard in edit mode: its place, its key and its editedItem

vars == <<memories, tasks, availableCategories, selectedRootCategory, newProjectCategory,
          isProcessing, request, now, lastOp, selectedDate, clock, coachChat,
          chatRequests, inputText, selectionStart, selectionEnd, loadedShape, editingCard>>

repoVars == <<memories, tasks, availableCategories, selectedRootCategory, newProjectCategory,
              isProcessing, request, now>>
agendaVars == <<selectedDate, clock>>
chatVars == <<coachChat, chatRequests>>
editorVars == <<inputText, selectionStart, selectionEnd>>

Collections == [memories |-> memories, tasks |-> tasks,
                availableCategories |-> availableCategories]

NoRequest == [kind |-> "none", text |-> "", hierarchy |-> <<>>, cats |-> <<>>]

Op(name, args, alert) == [op |-> name, args |-> args, alert |-> alert]

\* What every handler leaves behind for the properties: its name, its
\* arguments, and whether it raised an alert.
Record(name, args, alert) == lastOp' = Op(name, args, alert)

(***************************************************************************)
(* Array helpers                                                           *)
(***************************************************************************)
\* A removal that drops the last element, whatever the index.
RemoveLast(arr, k) == SubSeq(arr, 1, Len(arr) - 1)

\* prev.filter((_, idx) => idx !== itemIndex), with itemIndex counted from 1.
RemoveAt(arr, k) ==
    [i \in 1..(Len(arr) - (IF k \in 1..Len(arr) THEN 1 ELSE 0)) |->
        IF i < k THEN arr[i] ELSE arr[i + 1]]

\* The projects of the Memories, as handed to new Set(...).
ProjectsOf(mems) == {mems[i].project : i \in 1..Len(mems)}

isProjectNameGloballyUnique(mems, name) ==
    IF name = General THEN TRUE ELSE name \notin ProjectsOf(mems)

\* The projects the Structure manager lists (one row per hierarchy project).
ListedProjects ==
    LET h == getProjectHierarchy(availableCategories, memories) IN
    UNION {{h[i].projs[j] : j \in 1..Len(h[i].projs)} : i \in 1..Len(h)}

ListedCategories == {availableCategories[i] : i \in 1..Len(availableCategories)}

\* (m.rootCategory || 'Inspiration') === selectedRootCategory
PassesFilter(m) ==
    \/ selectedRootCategory = All
    \/ (IF Truthy(m.rootCategory) THEN m.rootCategory ELSE "Inspiration") = selectedRootCategory

\* An array slot that was never written (a hole reads as undefined).
Hole == [title |-> Undefined, status |-> Undefined]

\* memory.subProject: undefined on a Memory that has no such property.
SubProject(m) == IF "subProject" \in DOMAIN m THEN m.subProject ELSE Undefined

\* memory.project || 'General' and memory.subProject || 'General'
GroupProject(m) == IF Truthy(m.project) THEN m.project ELSE General
GroupSubProject(m) == IF Truthy(SubProject(m)) THEN SubProject(m) ELSE General

\* The filter test of renderMemoryView for a given filter value.
FilterAdmits(filter, m) ==
    \/ filter = All
    \/ (IF Truthy(m.rootCategory) THEN m.rootCategory ELSE "Inspiration") = filter

(***************************************************************************)
(* The MemoryCard in edit mode.  A card is an element of the Memory        *)
(* Browser's tree: it sits in the group of a project and a subProject      *)
(* under the key `${mem.id}-${idx}`, and keeps its state (isEditing,       *)
(* editedItem) for as long as an element with that key is rendered there.  *)
(* One card at a time is in edit mode.  `began` is the item the card       *)
(* showed when the edit began.                                             *)
(***************************************************************************)
NoCard ==
    [isEditing |-> FALSE, project |-> General, subProject |-> General, memoryId |-> 0,
     itemIndex |-> 0, editedItem |-> Hole, began |-> Hole]

\* The browser renders a card for item k of Memory m: the Memory passes the
\* filter, its project is an own key of groupedData, and the slot is not a
\* hole (map skips holes).
RendersCard(filter, m, k) ==
    /\ FilterAdmits(filter, m)
    /\ GroupProject(m) \notin ObjectPrototypeKeys
    /\ k \in 1..Len(m.structuredContent)
    /\ m.structuredContent[k] # Hole

\* An element with the card's key is rendered in the card's group.
CardMounted(c, mems, filter) ==
    \E i \in 1..Len(mems) :
        /\ mems[i].id = c.memoryId
        /\ GroupProject(mems[i]) = c.project
        /\ GroupSubProject(mems[i]) = c.subProject
        /\ RendersCard(filter, mems[i], c.itemIndex)

\* The render that follows a handler: a card whose key is no longer rendered
\* is unmounted and its state is gone; a card whose key is still rendered
\* keeps its state, whatever item it is now handed.
Rerender ==
    editingCard' =
        IF editingCard.isEditing /\ CardMounted(editingCard, memories', selectedRootCategory')
        THEN editingCard
        ELSE NoCard

\* The handler runs on a tab other than the Memory Browser, where no card is
\* mounted.
OtherTab == editingCard' = NoCard

(***************************************************************************)
(* Category handlers                                                       *)
(***************************************************************************)
handleAddCategory(tempCategoryName) ==
    /\ Truthy(Trim(tempCategoryName))
    /\ ~Includes(availableCategories, Trim(tempCategoryName))
    /\ Len(availableCategories) < MaxCategories
    /\ availableCategories' = Append(availableCategories, Trim(tempCategoryName))
    /\ Record("handleAddCategory", <<tempCategoryName>>, FALSE)
    /\ UNCHANGED <<memories, tasks, selectedRootCategory, newProjectCategory,
                   isProcessing, request, now, agendaVars, chatVars, editorVars, loadedShape>>
    /\ Rerender

\* prev.filter(c => c !== cat)
DeleteCategoryFilter(cats, cat) == SelectSeq(cats, LAMBDA c : c # cat)

handleDeleteCategory(cat) ==
    IF Len(availableCategories) <= 1
    THEN /\ Record("handleDeleteCategory", <<cat>>, TRUE)
         /\ UNCHANGED <<repoVars, agendaVars, chatVars, editorVars, loadedShape>>
         /\ Rerender
    ELSE /\ availableCategories' = DeleteCategoryFilter(availableCategories, cat)
         /\ selectedRootCategory' = IF selectedRootCategory = cat THEN All
                                    ELSE selectedRootCategory
         /\ Record("handleDeleteCategory", <<cat>>, FALSE)
         /\ UNCHANGED <<memories, tasks, newProjectCategory, isProcessing, request, now,
                        agendaVars, chatVars, editorVars, loadedShape>>
         /\ Rerender

\* A rename that rewrites the category list and leaves the Memories alone.
RenameListOnly(oldName, newName) ==
    /\ Truthy(Trim(newName))
    /\ newName # oldName
    /\ availableCategories' =
          [i \in 1..Len(availableCategories) |->
              IF availableCategories[i] = oldName THEN newName ELSE availableCategories[i]]
    /\ Record("handleUpdateCategoryName", <<oldName, newName>>, FALSE)
    /\ UNCHANGED <<memories, tasks, selectedRootCategory, newProjectCategory, isProcessing,
                   request, now, agendaVars, chatVars, editorVars, loadedShape>>
    /\ Rerender

handleUpdateCategoryName(oldName, newName) ==
    /\ Truthy(Trim(newName))
    /\ newName # oldName
    /\ availableCategories' =
          [i \in 1..Len(availableCategories) |->
              IF availableCategories[i] = oldName THEN newName ELSE availableCategories[i]]
    /\ memories' =
          [i \in 1..Len(memories) |->
              IF memories[i].rootCategory = oldName
              THEN [memories[i] EXCEPT !.rootCategory = newName] ELSE memories[i]]
    /\ Record("handleUpdateCategoryName", <<oldName, newName>>, FALSE)
    /\ UNCHANGED <<tasks, selectedRootCategory, newProjectCategory, isProcessing, request,
                   now, agendaVars, chatVars, editorVars, loadedShape>>
    /\ Rerender

(***************************************************************************)
(* Dates.  An instant is a number of hours since the local midnight of day *)
(* 0 of the model.                                                         *)
(***************************************************************************)
HoursPerDay == 24

\* The texts `${year}.${month}.${day}` of the days of the model, day 0 first.
DateTexts == <<"2025.01.01", "2025.01.02", "2025.01.03", "2025.01.04", "2025.01.05",
               "2025.01.06">>

\* formatDate(ts), and formattedSelectedDate for the selected instant: the
\* year, month and day of the local date of the instant, zero-padded.
formatDate(ts) == DateTexts[(ts \div HoursPerDay) + 1]

\* item.targetDate: a property the item does not have reads as undefined.
TargetDate(item) == IF "targetDate" \in DOMAIN item THEN item.targetDate ELSE Undefined

(***************************************************************************)
(* Project handlers                                                        *)
(***************************************************************************)
\* The item a manually created project starts with.
PlaceholderItem ==
    [title |-> "Project Initialized", status |-> "pending", targetDate |-> formatDate(clock)]

\* The Memory handleAddProject builds.
ManualMemory(cat, trimmedName) ==
    [id |-> now, originalText |-> ManualText, rootCategory |-> cat,
     project |-> trimmedName, structuredContent |-> <<PlaceholderItem>>]

\* A uniqueness test that accepts every name.
AnyNameAccepted(name) == TRUE

\* The uniqueness test handleAddProject and handleUpdateProjectName apply.
ProjectNameAccepted(name) == isProjectNameGloballyUnique(memories, name)

\* targetCategory is the Structure manager's selected category, or undefined
\* when the New Project modal calls.
handleAddProject(targetCategory, name) ==
    LET cat == IF Truthy(targetCategory) THEN targetCategory ELSE newProjectCategory
        trimmedName == Trim(name)
    IN  /\ Truthy(trimmedName)
        /\ IF ~ProjectNameAccepted(trimmedName)
           THEN /\ Record("handleAddProject", <<targetCategory, name>>, TRUE)
                /\ UNCHANGED <<repoVars, agendaVars, chatVars, editorVars, loadedShape>>
                /\ Rerender
           ELSE /\ Len(memories) < MaxMemories
                /\ memories' = <<ManualMemory(cat, trimmedName)>> \o memories
                /\ selectedRootCategory' =
                      IF ~Truthy(targetCategory) THEN cat ELSE selectedRootCategory
                /\ Record("handleAddProject", <<targetCategory, name>>, FALSE)
                /\ UNCHANGED <<tasks, availableCategories, newProjectCategory,
                               isProcessing, request, now, agendaVars, chatVars, editorVars, loadedShape>>
                /\ Rerender

\* A deletion that empties the Memory collection.
DeleteEveryMemory(projectName) ==
    /\ memories' = <<>>
    /\ Record("handleDeleteProject", <<projectName>>, FALSE)
    /\ UNCHANGED <<tasks, availableCategories, selectedRootCategory, newProjectCategory,
                   isProcessing, request, now, agendaVars, chatVars, editorVars, loadedShape>>
    /\ Rerender

\* prev.filter(m => m.project !== projectName)
handleDeleteProject(projectName) ==
    /\ memories' = SelectSeq(memories, LAMBDA m : m.project # projectName)
    /\ Record("handleDeleteProject", <<projectName>>, FALSE)
    /\ UNCHANGED <<tasks, availableCategories, selectedRootCategory, newProjectCategory,
                   isProcessing, request, now, agendaVars, chatVars, editorVars, loadedShape>>
    /\ Rerender

handleUpdateProjectName(oldName, newName) ==
    /\ Truthy(Trim(newName))
    /\ newName # oldName
    /\ IF ~ProjectNameAccepted(Trim(newName))
       THEN /\ Record("handleUpdateProjectName", <<oldName, newName>>, TRUE)
            /\ UNCHANGED <<repoVars, agendaVars, chatVars, editorVars, loadedShape>>
            /\ Rerender
       ELSE /\ memories' =
                  [i \in 1..Len(memories) |->
                      IF memories[i].project = oldName
                      THEN [memories[i] EXCEPT !.project = Trim(newName)]
                      ELSE memories[i]]
            /\ Record("handleUpdateProjectName", <<oldName, newName>>, FALSE)
            /\ UNCHANGED <<tasks, availableCategories, selectedRootCategory,
                           newProjectCategory, isProcessing, request, now,
                           agendaVars, chatVars, editorVars, loadedShape>>
            /\ Rerender

(***************************************************************************)
(* Item handlers.  Item indices count from 1 here and from 0 in the code.  *)
(***************************************************************************)
\* A filter that drops every Memory left without items.
KeepNonEmpty(mem) == Len(mem.structuredContent) > 0

\* The final filter of handleDeleteMemoryItem.
KeepMemory(mem) ==
    Len(mem.structuredContent) > 0 \/ mem.originalText = ManualText

MemoriesAfterDelete(mems, memoryId, itemIndex) ==
    LET updated == [i \in 1..Len(mems) |->
                       IF mems[i].id = memoryId
                       THEN [mems[i] EXCEPT
                               !.structuredContent = RemoveAt(@, itemIndex)]
                       ELSE mems[i]]
    IN  SelectSeq(updated, KeepMemory)

\* The cards the Memory Browser renders: one per item of a Memory that passes
\* the category filter; each carries its Memory's id and its own index.
Cards ==
    UNION {{<<i, k>> : k \in 1..Len(memories[i].structuredContent)} :
              i \in {j \in 1..Len(memories) : PassesFilter(memories[j])}}

handleDeleteMemoryItem(memoryId, itemIndex) ==
    /\ memories' = MemoriesAfterDelete(memories, memoryId, itemIndex)
    /\ Record("handleDeleteMemoryItem", <<memoryId, itemIndex>>, FALSE)
    /\ UNCHANGED <<tasks, availableCategories, selectedRootCategory, newProjectCategory,
                   isProcessing, request, now, agendaVars, chatVars, editorVars, loadedShape>>
    /\ Rerender

\* What the card's edit form hands to onUpdate.
EditedItems == {[title |-> "E", status |-> "pending"]}

\* newContent[itemIndex] = updatedItem: an index past the end grows the array.
SetAt(arr, k, v) ==
    [i \in 1..(IF k > Len(arr) THEN k ELSE Len(arr)) |->
        IF i = k THEN v ELSE IF i <= Len(arr) THEN arr[i] ELSE Hole]

\* prev.map(mem => mem.id === memoryId ? {...mem, structuredContent: newContent} : mem)
MemoriesAfterUpdate(mems, memoryId, itemIndex, updatedItem) ==
    [i \in 1..Len(mems) |->
        IF mems[i].id = memoryId
        THEN [mems[i] EXCEPT !.structuredContent = SetAt(@, itemIndex, updatedItem)]
        ELSE mems[i]]

handleUpdateMemoryItem(memoryId, itemIndex, updatedItem) ==
    /\ memories' = MemoriesAfterUpdate(memories, memoryId, itemIndex, updatedItem)
    /\ Record("handleUpdateMemoryItem", <<memoryId, itemIndex>>, FALSE)
    /\ UNCHANGED <<tasks, availableCategories, selectedRootCategory, newProjectCategory,
                   isProcessing, request, now, agendaVars, chatVars, editorVars, loadedShape>>
    /\ Rerender

\* The card's Edit button: setIsEditing(true).  editedItem is the item the
\* card was last handed (the effect keeps it in step while not editing).
startEditing(i, k) ==
    /\ ~editingCard.isEditing
    /\ i \in 1..Len(memories)
    /\ RendersCard(selectedRootCategory, memories[i], k)
    /\ editingCard' =
          [isEditing |-> TRUE, project |-> GroupProject(memories[i]),
           subProject |-> GroupSubProject(memories[i]), memoryId |-> memories[i].id,
           itemIndex |-> k, editedItem |-> memories[i].structuredContent[k],
           began |-> memories[i].structuredContent[k]]
    /\ Record("startEditing", <<memories[i].id, k>>, FALSE)
    /\ UNCHANGED <<repoVars, agendaVars, chatVars, editorVars, loadedShape>>

\* The title field of the edit form: setEditedItem({...editedItem, title}).
setEditedTitle(title) ==
    /\ editingCard.isEditing
    /\ editingCard.editedItem.title # title
    /\ editingCard' = [editingCard EXCEPT !.editedItem.title = title]
    /\ Record("setEditedTitle", <<title>>, FALSE)
    /\ UNCHANGED <<repoVars, agendaVars, chatVars, editorVars, loadedShape>>

\* The card's Save button: onUpdate(editedItem), which is
\* handleUpdateMemoryItem(mem.id, idx, editedItem) with the id and the index
\* of the card's key, then setIsEditing(false).
handleSave ==
    /\ editingCard.isEditing
    /\ memories' = MemoriesAfterUpdate(memories, editingCard.memoryId,
                                       editingCard.itemIndex, editingCard.editedItem)
    /\ editingCard' = NoCard
    /\ Record("handleSave", <<editingCard.memoryId, editingCard.itemIndex>>, FALSE)
    /\ UNCHANGED <<tasks, availableCategories, selectedRootCategory, newProjectCategory,
                   isProcessing, request, now, agendaVars, chatVars, editorVars, loadedShape>>

\* The card's Cancel button.
handleCancel ==
    /\ editingCard.isEditing
    /\ editingCard' = NoCard
    /\ Record("handleCancel", <<>>, FALSE)
    /\ UNCHANGED <<repoVars, agendaVars, chatVars, editorVars, loadedShape>>

\* A click on a filter chip of the Memory Browser.
setSelectedRootCategory(cat) ==
    /\ selectedRootCategory # cat
    /\ selectedRootCategory' = cat
    /\ Record("setSelectedRootCategory", <<cat>>, FALSE)
    /\ UNCHANGED <<memories, tasks, availableCategories, newProjectCategory,
                   isProcessing, request, now, agendaVars, chatVars, editorVars, loadedShape>>
    /\ Rerender

\* Time passes: Date.now() advances.
Tick ==
    /\ now < MaxNow
    /\ now' = now + 1
    /\ Record("Tick", <<>>, FALSE)
    /\ UNCHANGED <<memories, tasks, availableCategories, selectedRootCategory,
                   newProjectCategory, isProcessing, request, agendaVars, chatVars, editorVars, loadedShape>>
    /\ Rerender

(***************************************************************************)
(* The gateway (processInput, generatePlan) and handleProcessInput         *)
(***************************************************************************)
\* inputText.toLowerCase() includes 'want to', 'plan to' or 'days': on the
\* texts of the model, GoalText alone does.
IsGoal(text) == text = GoalText

\* The texts of the model are shorter than 100 characters and hold no '/';
\* no image is attached.
TakesPlanBranch(text) == IsGoal(text)

\* What the gateway's wire answer can be: the call rejects, the answer has no
\* text, the text is not JSON, or it parses to a value.
GatewayFailures == {[kind |-> "reject"], [kind |-> "empty"], [kind |-> "unparseable"]}

\* The items of a parsed classification: the gateway may set a status.
GatewayItems(n) ==
    [i \in 1..n |-> [title |-> ItemTitles[i],
                     status |-> IF i = 1 THEN Undefined ELSE "completed"]]

\* Parsed classifications.  A missing field reads as undefined.
\* An array-valued field of a parsed answer: missing, or a list.
Missing == [defined |-> FALSE, list |-> <<>>]
Present(list) == [defined |-> TRUE, list |-> list]

ClassifyResults ==
    [rootCategory : {"Life", Undefined},
     project      : {General, "Japan"},
     items        : {Missing} \cup {Present(GatewayItems(n)) : n \in {0, 1}}]

ClassifyResponses ==
    GatewayFailures \cup {[kind |-> "json", value |-> r] : r \in ClassifyResults}

\* Parsed plans: tasks missing, or a list of {day, title} with title possibly
\* missing.
PlanTask(d, t) == [day |-> d, title |-> t]
PlanResults ==
    {[tasks |-> Missing],
     [tasks |-> Present(<<PlanTask(1, "run")>>)],
     [tasks |-> Present(<<PlanTask(1, Undefined)>>)],
     [tasks |-> Present(<<PlanTask(1, "run"), PlanTask(2, "rest")>>)],
     [tasks |-> Present(<<PlanTask(4, "race")>>)]}

PlanResponses ==
    GatewayFailures \cup {[kind |-> "json", value |-> r] : r \in PlanResults}

\* processInput / generatePlan: they throw unless the answer parses, and
\* return JSON.parse's value unvalidated.
GatewayThrows(resp) == resp.kind # "json"

\* The required fields of the response schemas.
ClassifySchemaOk(r) ==
    /\ r.rootCategory # Undefined
    /\ r.project # Undefined
    /\ r.items.defined
PlanSchemaOk(r) ==
    /\ r.tasks.defined
    /\ \A i \in 1..Len(r.tasks.list) : r.tasks.list[i].title # Undefined

\* The Process Input button runs the handler up to its await.
handleProcessInput(text) ==
    /\ ~isProcessing
    /\ Truthy(Trim(text))
    /\ isProcessing' = TRUE
    /\ request' =
          IF TakesPlanBranch(text)
          THEN [kind |-> "plan", text |-> text, hierarchy |-> <<>>, cats |-> <<>>]
          ELSE [kind |-> "classify", text |-> text,
                hierarchy |-> getProjectHierarchy(availableCategories, memories),
                cats |-> availableCategories]
    /\ Record("handleProcessInput", <<text>>, FALSE)
    /\ UNCHANGED <<memories, tasks, availableCategories, selectedRootCategory,
                   newProjectCategory, now, agendaVars, chatVars, editorVars, loadedShape>>
    /\ OtherTab

\* A catch without the finally: the alert is raised and the busy flag stays.
FailedWithoutFinally(name, resp) ==
    /\ request' = NoRequest
    /\ Record(name, <<request, resp>>, TRUE)
    /\ UNCHANGED <<memories, tasks, availableCategories, selectedRootCategory, isProcessing,
                   newProjectCategory, now, agendaVars, chatVars, editorVars, loadedShape>>
    /\ Rerender

\* catch { alert } finally { setIsProcessing(false) }
ProcessFailed(name, resp) ==
    /\ isProcessing' = FALSE
    /\ request' = NoRequest
    /\ Record(name, <<request, resp>>, TRUE)
    /\ UNCHANGED <<memories, tasks, availableCategories, selectedRootCategory,
                   newProjectCategory, now, agendaVars, chatVars, editorVars, loadedShape>>
    /\ Rerender

\* plan.tasks.map((t, idx) => ...)
NewTasks(planTasks) ==
    [i \in 1..Len(planTasks) |->
        [id |-> <<now, i - 1>>,
         title |-> <<"Day", planTasks[i].day, planTasks[i].title>>,
         day |-> planTasks[i].day,
         status |-> "pending"]]

\* result.items.map(item => ({ ...item, status: 'pending' }))
InitializedItems(items) ==
    [i \in 1..Len(items) |-> [items[i] EXCEPT !.status = "pending"]]

\* The Memory built from a classification, from the values the call captured
\* before its await.
NewMemory(req, result) ==
    LET final == Reconcile(req.cats, req.hierarchy, result) IN
    [id |-> now, originalText |-> req.text, rootCategory |-> final.rootCategory,
     project |-> final.project, structuredContent |-> InitializedItems(result.items.list)]

\* Whether the continuation after the await throws.
PlanThrows(resp) == GatewayThrows(resp) \/ ~resp.value.tasks.defined
ClassifyThrows(resp) == GatewayThrows(resp) \/ ~resp.value.items.defined

\* generatePlan settles and the rest of handleProcessInput runs.
ResolvePlan(resp) ==
    /\ request.kind = "plan"
    /\ IF PlanThrows(resp)
       THEN ProcessFailed("ResolvePlan", resp)
       ELSE /\ Len(tasks) + Len(resp.value.tasks.list) <= MaxTasks
            /\ tasks' = tasks \o NewTasks(resp.value.tasks.list)
            /\ isProcessing' = FALSE
            /\ request' = NoRequest
            /\ Record("ResolvePlan", <<request, resp>>, FALSE)
            /\ UNCHANGED <<memories, availableCategories, selectedRootCategory,
                           newProjectCategory, now, agendaVars, chatVars, editorVars, loadedShape>>
            /\ OtherTab

\* processInput settles and the rest of handleProcessInput runs.
ResolveClassify(resp) ==
    /\ request.kind = "classify"
    /\ IF ClassifyThrows(resp)
       THEN ProcessFailed("ResolveClassify", resp)
       ELSE /\ Len(memories) < MaxMemories
            /\ memories' = <<NewMemory(request, resp.value)>> \o memories
            /\ selectedRootCategory' = NewMemory(request, resp.value).rootCategory
            /\ isProcessing' = FALSE
            /\ request' = NoRequest
            /\ Record("ResolveClassify", <<request, resp>>, FALSE)
            /\ UNCHANGED <<tasks, availableCategories, newProjectCategory, now,
                           agendaVars, chatVars, editorVars, loadedShape>>
            /\ Rerender

(***************************************************************************)
(* The Memory Browser (renderMemoryView).  groupedData is a plain object of *)
(* plain objects: a sequence of entries [key, value] in insertion order.    *)
(* A Memory is named by its position in the collection.                     *)
(***************************************************************************)
\* Own properties of a grouping object.
GroupHas(g, k) == \E i \in 1..Len(g) : g[i].key = k
GroupGet(g, k) == g[CHOOSE i \in 1..Len(g) : g[i].key = k].value
GroupSet(g, k, v) ==
    IF GroupHas(g, k)
    THEN [i \in 1..Len(g) |-> IF g[i].key = k THEN [key |-> k, value |-> v] ELSE g[i]]
    ELSE Append(g, [key |-> k, value |-> v])

\* The body of filteredMemories.forEach(memory => ...) for the Memory at
\* position i.  `!groupedData[proj]` is false for a name inherited from
\* Object.prototype: no own property is created, and the Memory is pushed
\* onto a property of the inherited function instead.
GroupMemory(g, i) ==
    LET proj == GroupProject(memories[i])
        sub  == GroupSubProject(memories[i])
    IN  IF ~GroupHas(g, proj) /\ proj \in ObjectPrototypeKeys
        THEN g
        ELSE LET subs == IF GroupHas(g, proj) THEN GroupGet(g, proj) ELSE <<>>
                 list == IF GroupHas(subs, sub) THEN GroupGet(subs, sub) ELSE <<>>
             IN  GroupSet(g, proj, GroupSet(subs, sub, Append(list, i)))

RECURSIVE GroupFrom(_, _)
GroupFrom(g, i) ==
    IF i > Len(memories) THEN g
    ELSE GroupFrom(IF PassesFilter(memories[i]) THEN GroupMemory(g, i) ELSE g, i + 1)

groupedData == GroupFrom(<<>>, 1)

\* The groups the browser renders, as <<project, subProject, position in the
\* group's list>>: the flat list is groupedData['General'], the folders are
\* the other keys of groupedData.
Rendered(i) ==
    {<<groupedData[p].key, groupedData[p].value[s].key, n>> :
        <<p, s, n>> \in {t \in (1..Len(groupedData)) \X (1..MaxMemories) \X (1..MaxMemories) :
                            /\ t[2] <= Len(groupedData[t[1]].value)
                            /\ t[3] <= Len(groupedData[t[1]].value[t[2]].value)
                            /\ groupedData[t[1]].value[t[2]].value[t[3]] = i}}

(***************************************************************************)
(* The agenda (renderTodayView).  Time is counted in hours.                *)
(***************************************************************************)
\* today.setHours(0, 0, 0, 0): the local midnight at or before t.
Midnight(t) == t - (t % HoursPerDay)

\* Math.ceil(a / b) for b > 0.
CeilDiv(a, b) == -((-a) \div b)

\* planDayNumber of the render at the current wall clock.
planDayNumber ==
    LET today    == Midnight(clock)
        diffTime == selectedDate - today
        diffDays == CeilDiv(diffTime, HoursPerDay)
    IN  diffDays + 1

\* tasks.filter(t => t.day === planDayNumber)
standardTasks == SelectSeq(tasks, LAMBDA t : t.day = planDayNumber)

\* The agenda entry of Task t.
TaskEntry(t) ==
    [id |-> t.id, title |-> t.title, day |-> t.day, status |-> t.status,
     isMemory |-> FALSE, tag |-> "Coach Plan"]

\* The agenda entry of the item at index idx of Memory mem; its id is
\* `${mem.id}_${idx}`, kept here as the pair that handleTaskComplete splits
\* it into.
MemoryEntry(mem, idx) ==
    LET item == mem.structuredContent[idx] IN
    [id |-> <<mem.id, idx>>, title |-> item.title,
     status |-> IF Truthy(item.status) THEN item.status ELSE "pending",
     isMemory |-> TRUE,
     tag |-> IF mem.project = General THEN mem.rootCategory ELSE mem.project]

\* A scan that looks at one item only.
OneItemEntry(mem, idx) ==
    IF idx > Len(mem.structuredContent) THEN <<>>
    ELSE IF /\ mem.structuredContent[idx] # Hole
            /\ TargetDate(mem.structuredContent[idx]) = formatDate(selectedDate)
    THEN <<MemoryEntry(mem, idx)>> ELSE <<>>

\* The entries of the items of Memory mem from index idx on whose targetDate
\* is the text of the selected date; forEach passes over a hole.
RECURSIVE ItemEntries(_, _)
ItemEntries(mem, idx) ==
    IF idx > Len(mem.structuredContent) THEN <<>>
    ELSE (IF /\ mem.structuredContent[idx] # Hole
             /\ TargetDate(mem.structuredContent[idx]) = formatDate(selectedDate)
          THEN <<MemoryEntry(mem, idx)>> ELSE <<>>)
         \o ItemEntries(mem, idx + 1)

\* memories.forEach(mem => mem.structuredContent.forEach(...))
RECURSIVE MemoryTasksOf(_)
MemoryTasksOf(mems) ==
    IF mems = <<>> THEN <<>>
    ELSE ItemEntries(Head(mems), 1) \o MemoryTasksOf(Tail(mems))

memoryTasks == MemoryTasksOf(memories)

\* [...standardTasks.map(t => ({...t, isMemory: false, tag: 'Coach Plan'})), ...memoryTasks]
allItems ==
    [i \in 1..Len(standardTasks) |-> TaskEntry(standardTasks[i])] \o memoryTasks

\* status === 'pending' ? 'completed' : 'pending'
Toggled(status) == IF status = "pending" THEN "completed" ELSE "pending"

\* The item sequence of a Memory after the toggle at index idx: nothing
\* changes when there is no item at idx.
ToggleItem(items, idx) ==
    IF idx \in 1..Len(items) /\ items[idx] # Hole
    THEN [items EXCEPT ![idx].status = Toggled(@)]
    ELSE items

\* id is the pair of `${mem.id}_${idx}` for an item, and the Task's id for a
\* Task.
handleTaskComplete(id, isMemoryItem) ==
    /\ IF isMemoryItem
       THEN /\ memories' =
                  [i \in 1..Len(memories) |->
                      IF memories[i].id = id[1]
                      THEN [memories[i] EXCEPT !.structuredContent = ToggleItem(@, id[2])]
                      ELSE memories[i]]
            /\ UNCHANGED tasks
       ELSE /\ tasks' =
                  [i \in 1..Len(tasks) |->
                      IF tasks[i].id = id
                      THEN [tasks[i] EXCEPT !.status = Toggled(@)] ELSE tasks[i]]
            /\ UNCHANGED memories
    /\ Record("handleTaskComplete", <<id, isMemoryItem>>, FALSE)
    /\ UNCHANGED <<availableCategories, selectedRootCategory, newProjectCategory,
                   isProcessing, request, now, agendaVars, chatVars, editorVars, loadedShape>>
    /\ OtherTab

\* A click on day d of the calendar grid: new Date(year, month, day), a local
\* midnight.
setSelectedDate(d) ==
    /\ selectedDate # d * HoursPerDay
    /\ selectedDate' = d * HoursPerDay
    /\ Record("setSelectedDate", <<d>>, FALSE)
    /\ UNCHANGED <<repoVars, clock, chatVars, editorVars, loadedShape>>
    /\ OtherTab

\* The wall clock advances by h hours.
ClockAdvance(h) ==
    /\ clock + h <= MaxClock
    /\ clock' = clock + h
    /\ Record("ClockAdvance", <<h>>, FALSE)
    /\ UNCHANGED <<repoVars, selectedDate, chatVars, editorVars, loadedShape>>
    /\ Rerender

(***************************************************************************)
(* The coach chat (handleSendChatMessage)                                  *)
(***************************************************************************)
Thinking == "Thinking..."

\* What the user types into the chat box.
ChatInputs == {" ", "q1", "q2"}
\* What getAgentResponse can resolve to.
ChatReplies == {"a1", "a2"}

\* The timestamp field of a message is written and never read; it is left out.
ChatMessage(role, text) == [role |-> role, text |-> text]

\* The handler up to its await: the user's message and the placeholder are
\* appended, and the request is issued.
handleSendChatMessage(chatInput) ==
    /\ Truthy(Trim(chatInput))
    /\ Len(chatRequests) < MaxChats
    /\ Len(coachChat) < 2 * MaxChats
    /\ coachChat' = coachChat \o <<ChatMessage("user", chatInput),
                                   ChatMessage("model", Thinking)>>
    /\ chatRequests' = Append(chatRequests, chatInput)
    /\ Record("handleSendChatMessage", <<chatInput>>, FALSE)
    /\ UNCHANGED <<repoVars, agendaVars, editorVars, loadedShape>>
    /\ Rerender

\* prev.map(msg => (msg.role === 'model' && msg.text === "Thinking...") ? {...msg, text: reply} : msg)
ReplacePlaceholders(chat, reply) ==
    [i \in 1..Len(chat) |->
        IF chat[i].role = "model" /\ chat[i].text = Thinking
        THEN [chat[i] EXCEPT !.text = reply] ELSE chat[i]]

\* prev.filter(msg => msg.text !== "Thinking...")
DropPlaceholders(chat) == SelectSeq(chat, LAMBDA msg : msg.text # Thinking)

\* getAgentResponse of the k-th request in flight resolves with reply.
ChatResolves(k, reply) ==
    /\ k \in 1..Len(chatRequests)
    /\ coachChat' = ReplacePlaceholders(coachChat, reply)
    /\ chatRequests' = RemoveAt(chatRequests, k)
    /\ Record("ChatResolves", <<chatRequests[k], reply>>, FALSE)
    /\ UNCHANGED <<repoVars, agendaVars, editorVars, loadedShape>>
    /\ Rerender

\* getAgentResponse of the k-th request in flight rejects (the DeepSeek branch
\* has no try/catch): the catch of the handler drops the placeholders and
\* raises no alert.
ChatRejects(k) ==
    /\ k \in 1..Len(chatRequests)
    /\ coachChat' = DropPlaceholders(coachChat)
    /\ chatRequests' = RemoveAt(chatRequests, k)
    /\ Record("ChatRejects", <<chatRequests[k]>>, FALSE)
    /\ UNCHANGED <<repoVars, agendaVars, editorVars, loadedShape>>
    /\ Rerender

(***************************************************************************)
(* The input box (handleInputChange, handleKeyDown).  A text is a sequence *)
(* of characters; a position counts the characters before it.              *)
(***************************************************************************)
MaxText == 5

\* The characters the user types.
Keys == {"/", "A", "B"}

\* The characters of the category and project names of the model.
Chars(name) ==
    CASE name = "B"           -> <<"B">>
      [] name = "A/B"         -> <<"A", "/", "B">>
      [] name = "Life"        -> <<"L", "i", "f", "e">>
      [] name = "Travel"      -> <<"T", "r", "a", "v", "e", "l">>
      [] name = "Japan"       -> <<"J", "a", "p", "a", "n">>
      [] name = "Korea"       -> <<"K", "o", "r", "e", "a">>
      [] name = General       -> <<"G", "e", "n", "e", "r", "a", "l">>

\* text.slice(from, to), by positions.
Slice(text, from, to) == SubSeq(text, from + 1, to)

\* text.endsWith(suffix)
EndsWith(text, suffix) ==
    /\ Len(suffix) <= Len(text)
    /\ Slice(text, Len(text) - Len(suffix), Len(text)) = suffix

\* Array.from(new Set(memories.map(m => m.project))).filter(Boolean): each
\* project once, in the order of its first Memory, without the falsy ones.
RECURSIVE DistinctProjects(_, _)
DistinctProjects(mems, seen) ==
    IF mems = <<>> THEN seen
    ELSE DistinctProjects(Tail(mems),
            IF Truthy(Head(mems).project) /\ ~Includes(seen, Head(mems).project)
            THEN Append(seen, Head(mems).project) ELSE seen)

\* One step of the sort: tag goes before the first element shorter than it.
RECURSIVE InsertByLength(_, _)
InsertByLength(sorted, tag) ==
    IF sorted = <<>> THEN <<tag>>
    ELSE IF Len(Chars(Head(sorted))) < Len(Chars(tag)) THEN <<tag>> \o sorted
    ELSE <<Head(sorted)>> \o InsertByLength(Tail(sorted), tag)

\* The tags in the order they are listed.
Unsorted(tags) == tags

\* allTags.sort((a, b) => b.length - a.length): longest first, tags of equal
\* length in the order they had.
RECURSIVE SortByLength(_)
SortByLength(tags) ==
    IF tags = <<>> THEN <<>>
    ELSE InsertByLength(SortByLength(SubSeq(tags, 1, Len(tags) - 1)), tags[Len(tags)])

\* [...availableCategories, ...existingProjects], sorted.
allTags == SortByLength(availableCategories \o DistinctProjects(memories, <<>>))

\* The first tag of tags such that textBefore ends in "/" and the tag, or
\* undefined.
RECURSIVE matchedTag(_, _)
matchedTag(textBefore, tags) ==
    IF tags = <<>> THEN Undefined
    ELSE IF EndsWith(textBefore, <<"/">> \o Chars(Head(tags))) THEN Head(tags)
    ELSE matchedTag(textBefore, Tail(tags))

\* The user types character c: the browser puts it in place of the selection
\* and the cursor after it; handleInputChange stores the new text.
handleInputChange(c) ==
    /\ Len(inputText) - (selectionEnd - selectionStart) < MaxText
    /\ inputText' = Slice(inputText, 0, selectionStart) \o <<c>>
                       \o Slice(inputText, selectionEnd, Len(inputText))
    /\ selectionStart' = selectionStart + 1
    /\ selectionEnd' = selectionStart + 1
    /\ Record("handleInputChange", <<c>>, FALSE)
    /\ UNCHANGED <<repoVars, agendaVars, chatVars, loadedShape>>
    /\ OtherTab

\* The user puts the cursor at a position, or selects a range.
setSelectionRange(from, to) ==
    /\ from <= to
    /\ to <= Len(inputText)
    /\ <<from, to>> # <<selectionStart, selectionEnd>>
    /\ selectionStart' = from
    /\ selectionEnd' = to
    /\ Record("setSelectionRange", <<from, to>>, FALSE)
    /\ UNCHANGED <<repoVars, agendaVars, chatVars, inputText, loadedShape>>
    /\ OtherTab

\* Backspace.  With a selection, or without a tag before the cursor, the
\* handler returns and the browser deletes the selection, or the character
\* before the cursor; with a tag before the cursor the handler prevents that
\* and cuts the token out.
handleKeyDown ==
    LET cursor     == selectionStart
        textBefore == Slice(inputText, 0, cursor)
        tag        == matchedTag(textBefore, allTags)
        tagLength  == Len(Chars(tag)) + 1
    IN  /\ Len(inputText) > 0
        /\ IF cursor # selectionEnd
           THEN /\ inputText' = Slice(inputText, 0, cursor)
                                   \o Slice(inputText, selectionEnd, Len(inputText))
                /\ selectionStart' = cursor
                /\ selectionEnd' = cursor
           ELSE IF tag # Undefined
           THEN /\ inputText' = Slice(inputText, 0, cursor - tagLength)
                                   \o Slice(inputText, cursor, Len(inputText))
                /\ selectionStart' = cursor - tagLength
                /\ selectionEnd' = cursor - tagLength
           ELSE /\ cursor > 0
                /\ inputText' = Slice(inputText, 0, cursor - 1)
                                   \o Slice(inputText, cursor, Len(inputText))
                /\ selectionStart' = cursor - 1
                /\ selectionEnd' = cursor - 1
        /\ Record("handleKeyDown", <<"Backspace", inputText, selectionStart, selectionEnd>>,
                  FALSE)
        /\ UNCHANGED <<repoVars, agendaVars, chatVars, loadedShape>>
        /\ OtherTab

(***************************************************************************)
(* Initial state                                                           *)
(***************************************************************************)
\* The category list an earlier session left in storage (loadFromStorage
\* returns the stored list when there is one): the default list after
\* "Learning", "Inspiration" and "Work" were deleted.
StoredCategories == <<"Travel", "Life">>

NoOp == Op("init", <<>>, FALSE)

\* The repository as the component is mounted.
RepoInit ==
    /\ memories = <<>>
    /\ tasks = <<>>
    /\ availableCategories = StoredCategories
    /\ selectedRootCategory = All
    /\ newProjectCategory = "Travel"
    /\ isProcessing = FALSE
    /\ request = NoRequest
    /\ now = 1
    /\ lastOp = NoOp

\* useState(new Date()): the selected date is the instant the app opens.
AgendaInit(openedAt) == clock = openedAt /\ selectedDate = openedAt

ChatInit == coachChat = <<>> /\ chatRequests = <<>>

\* useState(''): the input box is empty and the cursor is at its start.
EditorInit == inputText = <<>> /\ selectionStart = 0 /\ selectionEnd = 0

\* The three collections were loaded as arrays.
AllArrays == [memories |-> "array", tasks |-> "array", availableCategories |-> "array"]

\* No card is in edit mode: useState(false) of every MemoryCard.
CardInit == editingCard = NoCard

\* The app opens at midnight of day 0.
Init ==
    RepoInit /\ AgendaInit(0) /\ ChatInit /\ EditorInit /\ CardInit /\ loadedShape = AllArrays

(***************************************************************************)
(* The persistent store (loadFromStorage and the three persistence         *)
(* effects).  A storage entry is what localStorage.getItem returns: null,  *)
(* or a text; a text is empty, or not JSON, or the JSON text of a value.   *)
(***************************************************************************)
StorageKeys == {"memories", "tasks", "availableCategories"}

DefaultCategories == <<"Travel", "Learning", "Inspiration", "Work", "Life">>

\* The defaultValue argument of each loadFromStorage call.
DefaultValue(key) == IF key = "availableCategories" THEN DefaultCategories ELSE <<>>

\* A property JSON.stringify left out, and the JSON value null.
Omitted == "<omitted>"
Null == "null"

\* An array element that is null.
NullItem == [title |-> Null, status |-> Null]

Entry(kind, shape, value) == [kind |-> kind, shape |-> shape, value |-> value]
NoEntry == Entry("null", "none", <<>>)
EmptyText == Entry("empty", "none", <<>>)
NotJson == Entry("unparseable", "none", <<>>)
JsonText(shape, value) == Entry("json", shape, value)

\* JSON.stringify of a property value: a property whose value is undefined or
\* a function is left out.
StringifyProperty(v) == IF v \in {Undefined, ObjectFn} THEN Omitted ELSE v

\* JSON.stringify of an item of structuredContent: a hole becomes null.
StringifyItem(item) ==
    IF item = Hole THEN NullItem
    ELSE [f \in DOMAIN item |-> StringifyProperty(item[f])]

StringifyMemory(m) ==
    [id |-> m.id,
     originalText |-> StringifyProperty(m.originalText),
     rootCategory |-> StringifyProperty(m.rootCategory),
     project |-> StringifyProperty(m.project),
     structuredContent |->
        [i \in 1..Len(m.structuredContent) |-> StringifyItem(m.structuredContent[i])]]

\* A Task holds strings and numbers only.
StringifyTask(t) == [id |-> t.id, title |-> t.title, day |-> t.day, status |-> t.status]

\* JSON.stringify of an element of the category list: undefined and
\* functions become null.
StringifyCategory(c) == IF c \in {Undefined, ObjectFn} THEN Null ELSE c

StringifyElement(key, e) ==
    CASE key = "memories"            -> StringifyMemory(e)
      [] key = "tasks"               -> StringifyTask(e)
      [] key = "availableCategories" -> StringifyCategory(e)

\* JSON.stringify(collection), for a collection of the given shape.
Stringify(key, shape, collection) ==
    JsonText(shape, [i \in 1..Len(collection) |-> StringifyElement(key, collection[i])])

\* Reading a property of a parsed object: a property that was left out reads
\* as undefined.
ParseProperty(v) == IF v = Omitted THEN Undefined ELSE v

ParseItem(item) ==
    IF item = NullItem THEN NullItem
    ELSE [f \in DOMAIN item |-> ParseProperty(item[f])]

ParseMemory(m) ==
    [id |-> m.id,
     originalText |-> ParseProperty(m.originalText),
     rootCategory |-> ParseProperty(m.rootCategory),
     project |-> ParseProperty(m.project),
     structuredContent |->
        [i \in 1..Len(m.structuredContent) |-> ParseItem(m.structuredContent[i])]]

ParseElement(key, e) == IF key = "memories" THEN ParseMemory(e) ELSE e

\* JSON.parse of a JSON text: the value and what kind of value it is.
JsonParse(key, text) ==
    [shape |-> text.shape,
     value |-> [i \in 1..Len(text.value) |-> ParseElement(key, text.value[i])]]

\* stored ? JSON.parse(stored) : defaultValue, with the catch around it.
loadFromStorage(key, stored) ==
    IF stored.kind \in {"null", "empty"}
    THEN [shape |-> "array", value |-> DefaultValue(key)]
    ELSE IF stored.kind = "unparseable"
    THEN [shape |-> "array", value |-> DefaultValue(key)]
    ELSE JsonParse(key, stored)

\* What the persistence effects wrote after the last render.
Persisted ==
    [memories |-> Stringify("memories", loadedShape.memories, memories),
     tasks |-> Stringify("tasks", loadedShape.tasks, tasks),
     availableCategories |->
        Stringify("availableCategories", loadedShape.availableCategories,
                  availableCategories)]

\* The state of a component mounted over the storage entries stored.
Mounted(stored) ==
    LET loaded == [key \in StorageKeys |-> loadFromStorage(key, stored[key])] IN
    /\ memories = loaded.memories.value
    /\ tasks = loaded.tasks.value
    /\ availableCategories = loaded.availableCategories.value
    /\ loadedShape = [key \in StorageKeys |-> loaded[key].shape]
    /\ selectedRootCategory = All
    /\ newProjectCategory = "Travel"
    /\ isProcessing = FALSE
    /\ request = NoRequest
    /\ ChatInit
    /\ EditorInit
    /\ CardInit

\* The page is reloaded: the component is mounted again over what the
\* persistence effects wrote; the view state starts afresh and the selected
\* date is the instant of the reload.
Reload ==
    LET loaded == [key \in StorageKeys |-> loadFromStorage(key, Persisted[key])] IN
    /\ memories' = loaded.memories.value
    /\ tasks' = loaded.tasks.value
    /\ availableCategories' = loaded.availableCategories.value
    /\ loadedShape' = [key \in StorageKeys |-> loaded[key].shape]
    /\ selectedRootCategory' = All
    /\ newProjectCategory' = "Travel"
    /\ isProcessing' = FALSE
    /\ request' = NoRequest
    /\ coachChat' = <<>>
    /\ chatRequests' = <<>>
    /\ inputText' = <<>>
    /\ selectionStart' = 0
    /\ selectionEnd' = 0
    /\ editingCard' = NoCard
    /\ selectedDate' = clock
    /\ Record("Reload", <<Persisted>>, FALSE)
    /\ UNCHANGED <<now, clock>>

(***************************************************************************)
(* Spec: projects, items and classification as the UI drives them, with   *)
(* the clock running.                                                      *)
(***************************************************************************)
DeleteCategory == \E c \in ListedCategories : handleDeleteCategory(c)
AddProject ==
    \E t \in ListedCategories \cup {Undefined}, n \in ProjectInputs : handleAddProject(t, n)
DeleteProject == \E p \in ListedProjects : handleDeleteProject(p)
UpdateProjectName ==
    \E o \in ListedProjects, n \in ProjectInputs : handleUpdateProjectName(o, n)
DeleteMemoryItem ==
    \E c \in Cards : handleDeleteMemoryItem(memories[c[1]].id, c[2])
UpdateMemoryItem ==
    \E c \in Cards, u \in EditedItems : handleUpdateMemoryItem(memories[c[1]].id, c[2], u)
ProcessInput == \E t \in InputTexts : handleProcessInput(t)
ClassifySettles == \E r \in ClassifyResponses : ResolveClassify(r)

Next ==
    \/ DeleteCategory
    \/ AddProject
    \/ DeleteProject
    \/ UpdateProjectName
    \/ DeleteMemoryItem
    \/ UpdateMemoryItem
    \/ ProcessInput
    \/ ClassifySettles
    \/ Tick

Spec == Init /\ [][Next]_vars

(***************************************************************************)
(* SpecCategories: the three category handlers and the category filter,   *)
(* over a repository that holds manually created projects.                 *)
(* handleUpdateCategoryName has no caller in the component; here it is     *)
(* called as the other two are.                                            *)
(***************************************************************************)
AddCategory == \E n \in CategoryInputs : handleAddCategory(n)
UpdateCategoryName ==
    \E o \in ListedCategories, n \in CategoryRenames : handleUpdateCategoryName(o, n)
SelectRootCategory ==
    \E c \in ListedCategories \cup {All} : setSelectedRootCategory(c)

NextCategories ==
    \/ AddCategory
    \/ DeleteCategory
    \/ UpdateCategoryName
    \/ SelectRootCategory
    \/ AddProject

SpecCategories == Init /\ [][NextCategories]_vars

(***************************************************************************)
(* SpecReconcile: classification results of every shape against the       *)
(* hierarchies the project and category handlers build.                    *)
(***************************************************************************)
\* Declared categories: listed ones and one that is not; projects: General,
\* one the user may have created, one nobody created, and a property name
\* of Object.prototype.
ReconcileResults ==
    [rootCategory : {"Travel", "Life", "Work"},
     project      : {General, "Japan", "Korea", "constructor"},
     items        : {Present(GatewayItems(1))}]

ReconcileAddProject ==
    \E t \in ListedCategories : handleAddProject(t, "Japan")
ReconcileProcessInput == handleProcessInput(NoteText)
ReconcileSettles ==
    \E r \in ReconcileResults : ResolveClassify([kind |-> "json", value |-> r])

NextReconcile ==
    \/ ReconcileAddProject
    \/ DeleteCategory
    \/ ReconcileProcessInput
    \/ ReconcileSettles

SpecReconcile == Init /\ [][NextReconcile]_vars

(***************************************************************************)
(* SpecProjects: the project handlers and the category deletion, with two  *)
(* project names.                                                          *)
(***************************************************************************)
ProjectsAddProject ==
    \E t \in ListedCategories \cup {Undefined}, n \in ProjectNames : handleAddProject(t, n)
ProjectsUpdateProjectName ==
    \E o \in ListedProjects, n \in ProjectNames : handleUpdateProjectName(o, n)

NextProjects ==
    \/ ProjectsAddProject
    \/ DeleteProject
    \/ ProjectsUpdateProjectName
    \/ DeleteCategory

SpecProjects == Init /\ [][NextProjects]_vars

(***************************************************************************)
(* SpecItems: handleDeleteMemoryItem on manually created and classified    *)
(* Memories of one to MaxItems items, with the clock running.              *)
(***************************************************************************)
ItemsResults ==
    [rootCategory : {"Travel"},
     project      : {General},
     items        : {Present(GatewayItems(n)) : n \in 1..MaxItems}]

ItemsAddProject == handleAddProject(Undefined, "Japan")
ItemsSettles ==
    \E r \in ItemsResults : ResolveClassify([kind |-> "json", value |-> r])

NextItems ==
    \/ ItemsAddProject
    \/ ReconcileProcessInput
    \/ ItemsSettles
    \/ DeleteMemoryItem
    \/ Tick

SpecItems == Init /\ [][NextItems]_vars

(***************************************************************************)
(* SpecAgenda: plans become Tasks, the clock runs, dates are selected.     *)
(***************************************************************************)
\* The hours of day 0 at which the app is opened.
OpeningHours == {0, 9, 23}
\* The days of the calendar grid the user clicks.
CalendarDays == 0 .. 4

InitAgenda ==
    /\ RepoInit
    /\ \E h \in OpeningHours : AgendaInit(h)
    /\ ChatInit
    /\ EditorInit
    /\ CardInit
    /\ loadedShape = AllArrays

AgendaProcessInput == handleProcessInput(GoalText)
PlanSettles == \E r \in PlanResponses : ResolvePlan(r)
SelectDate == \E d \in CalendarDays : setSelectedDate(d)
AdvanceClock == \E h \in {1, HoursPerDay} : ClockAdvance(h)

NextAgenda ==
    \/ AgendaProcessInput
    \/ PlanSettles
    \/ SelectDate
    \/ AdvanceClock

SpecAgenda == InitAgenda /\ [][NextAgenda]_vars

(***************************************************************************)
(* SpecChat: chat messages are sent and their requests settle in any order *)
(***************************************************************************)
SendChatMessage == \E t \in ChatInputs : handleSendChatMessage(t)
ChatResolve == \E k \in 1..MaxChats, r \in ChatReplies : ChatResolves(k, r)
ChatReject == \E k \in 1..MaxChats : ChatRejects(k)

NextChat ==
    \/ SendChatMessage
    \/ ChatResolve
    \/ ChatReject

SpecChat == Init /\ [][NextChat]_vars

(***************************************************************************)
(* SpecDeleteProject: handleDeleteProject over repositories that hold      *)
(* manual and classified Memories of the same project, and Tasks.          *)
(***************************************************************************)
\* Classifications into "General" and into the project the user created.
DeleteProjectResults ==
    [rootCategory : {"Travel"},
     project      : {General, "Japan"},
     items        : {Present(GatewayItems(1))}]

DeleteProjectSettles ==
    \E r \in DeleteProjectResults : ResolveClassify([kind |-> "json", value |-> r])

NextDeleteProject ==
    \/ ReconcileAddProject
    \/ ReconcileProcessInput
    \/ DeleteProjectSettles
    \/ AgendaProcessInput
    \/ PlanSettles
    \/ DeleteProject

SpecDeleteProject == Init /\ [][NextDeleteProject]_vars

(***************************************************************************)
(* SpecEditor: the input box, with the category names and the names of two *)
(* manually created projects as tags.                                      *)
(***************************************************************************)
\* A project name that ends in "/" and another project name.
EditorProjects == {"B", "A/B"}

EditorAddProject == \E n \in EditorProjects : handleAddProject(Undefined, n)
TypeKey == \E c \in Keys : handleInputChange(c)
\* A click puts the cursor somewhere; a drag selects from there to the end.
Select == \E c \in 0..MaxText : \E e \in {c, Len(inputText)} : setSelectionRange(c, e)
Backspace == handleKeyDown

NextEditor ==
    \/ EditorAddProject
    \/ TypeKey
    \/ Select
    \/ Backspace

SpecEditor == Init /\ [][NextEditor]_vars

(***************************************************************************)
(* SpecStorage: the component mounted over every kind of storage entry,    *)
(* and reloaded.                                                           *)
(***************************************************************************)
\* A collection an earlier session may have stored under the key.
EarlierCollection(key) ==
    CASE key = "memories"            -> <<[id |-> 0, originalText |-> ManualText,
                                           rootCategory |-> "Travel", project |-> "Japan",
                                           structuredContent |-> <<PlaceholderItem>>]>>
      [] key = "tasks"               -> <<>>
      [] key = "availableCategories" -> StoredCategories

\* What localStorage may hold under the key: nothing, an empty text, a text
\* that is not JSON, and the JSON texts of null, of an object, of an empty
\* array and of a collection an earlier session stored.
StoredEntries(key) ==
    {NoEntry, EmptyText, NotJson, JsonText("null", <<>>), JsonText("object", <<>>),
     JsonText("array", <<>>), Stringify(key, "array", EarlierCollection(key))}

InitStorage ==
    /\ AgendaInit(0)
    /\ now = 1
    /\ \E stored \in [StorageKeys -> UNION {StoredEntries(key) : key \in StorageKeys}] :
          /\ \A key \in StorageKeys : stored[key] \in StoredEntries(key)
          /\ Mounted(stored)
          /\ lastOp = Op("loadFromStorage", <<stored>>, FALSE)

NextStorage == Reload

SpecStorage == InitStorage /\ [][NextStorage]_vars

(***************************************************************************)
(* SpecReload: manual projects, classifications of every shape, and page   *)
(* reloads.                                                                *)
(***************************************************************************)
NextReload ==
    \/ ReconcileAddProject
    \/ ReconcileProcessInput
    \/ ReconcileSettles
    \/ Reload

SpecReload == Init /\ [][NextReload]_vars

(***************************************************************************)
(* SpecToday: the agenda over Tasks, manually created projects and         *)
(* classified Memories whose items carry dates, and its completion toggle. *)
(***************************************************************************)
\* What the gateway may put in an item's targetDate: the date of day 0, the
\* date of day 1, a date in another format, or nothing.
DatedItem(title, date) == [title |-> title, status |-> Undefined, targetDate |-> date]
UndatedItem(title) == [title |-> title, status |-> Undefined]

TodayItems(title) ==
    {DatedItem(title, formatDate(0)), DatedItem(title, formatDate(HoursPerDay)),
     DatedItem(title, "Jan 1"), UndatedItem(title)}

TodayResults ==
    [rootCategory : {"Travel"},
     project      : {General},
     items        : {Present(<<a, b>>) : a \in TodayItems("A"),
                                          b \in {DatedItem("B", formatDate(0))}}]

TodayAddProject == handleAddProject(Undefined, "Japan")
TodaySettles ==
    \E r \in TodayResults : ResolveClassify([kind |-> "json", value |-> r])
TodayPlanSettles ==
    ResolvePlan([kind |-> "json",
                 value |-> [tasks |-> Present(<<PlanTask(1, "run"), PlanTask(2, "rest")>>)]])
TodaySelectDate == \E d \in {0, 1} : setSelectedDate(d)
ToggleAgendaItem ==
    \E k \in 1..Len(allItems) : handleTaskComplete(allItems[k].id, allItems[k].isMemory)

NextToday ==
    \/ TodayAddProject
    \/ ReconcileProcessInput
    \/ TodaySettles
    \/ AgendaProcessInput
    \/ TodayPlanSettles
    \/ TodaySelectDate
    \/ ToggleAgendaItem
    \/ Tick

SpecToday == Init /\ [][NextToday]_vars

(***************************************************************************)
(* SpecTodayView: the agenda as SpecToday builds it, without the           *)
(* completion toggle and with the id clock standing still.                 *)
(***************************************************************************)
NextTodayView ==
    \/ TodayAddProject
    \/ ReconcileProcessInput
    \/ TodaySettles
    \/ AgendaProcessInput
    \/ TodayPlanSettles
    \/ TodaySelectDate

SpecTodayView == Init /\ [][NextTodayView]_vars

(***************************************************************************)
(* SpecBrowser: the Memory Browser over manually created projects, one of  *)
(* them named like a property of Object.prototype, and classified Memories *)
(* of the project General, under every category filter.                    *)
(***************************************************************************)
BrowserProjects == {"Japan", "constructor"}

BrowserAddProject ==
    \E t \in ListedCategories, n \in BrowserProjects : handleAddProject(t, n)

NextBrowser ==
    \/ BrowserAddProject
    \/ ReconcileProcessInput
    \/ ItemsSettles
    \/ SelectRootCategory

SpecBrowser == Init /\ [][NextBrowser]_vars

(***************************************************************************)
(* SpecCards: the cards of the Memory Browser over classified Memories of  *)
(* one to MaxItems items: one card is edited while items are deleted and   *)
(* the filter changes.                                                     *)
(***************************************************************************)
EditedTitles == {"E"}

\* Classifications of up to MaxItems + 1 items: a card that is not the first
\* has a card after it.
CardsResults ==
    [rootCategory : {"Travel"},
     project      : {General},
     items        : {Present(GatewayItems(n)) : n \in 1..(MaxItems + 1)}]

CardsSettles ==
    \E r \in CardsResults : ResolveClassify([kind |-> "json", value |-> r])

StartEditing == \E i \in 1..MaxMemories, k \in 1..MaxItems : startEditing(i, k)
\* The Trash button of a card that is not in edit mode (the edit form has no
\* Trash button).
DeleteOtherItem ==
    \E c \in Cards :
        /\ ~(/\ editingCard.isEditing
             /\ editingCard.memoryId = memories[c[1]].id
             /\ editingCard.itemIndex = c[2])
        /\ handleDeleteMemoryItem(memories[c[1]].id, c[2])
EditTitle == \E t \in EditedTitles : setEditedTitle(t)

NextCards ==
    \/ ReconcileProcessInput
    \/ CardsSettles
    \/ StartEditing
    \/ EditTitle
    \/ handleSave
    \/ handleCancel
    \/ DeleteOtherItem
    \/ SelectRootCategory
    \/ Tick

SpecCards == Init /\ [][NextCards]_vars

(***************************************************************************)
(* SpecProcessing: notes and goals are submitted and the classification    *)
(* and planning requests resolve or fail in every way.                     *)
(***************************************************************************)
ProcessingInput == \E t \in InputTexts \cup {GoalText} : handleProcessInput(t)

NextProcessing ==
    \/ ProcessingInput
    \/ ClassifySettles
    \/ PlanSettles

SpecProcessing == Init /\ [][NextProcessing]_vars

(***************************************************************************)
(* Properties                                                              *)
(***************************************************************************)
\* The closure and the gateway answer of the classification that settled last.
SettledRequest == lastOp.args[1]
SettledResult == lastOp.args[2].value
ClassificationStored == lastOp.op = "ResolveClassify" /\ ~lastOp.alert

\* Whether hierarchy h lists project p, and the category of the last entry
\* that does.
Lists(h, p) == \E i \in 1..Len(h) : Includes(h[i].projs, p)
OwnerOf(h, p) ==
    LET listing == {i \in 1..Len(h) : Includes(h[i].projs, p)}
    IN  h[CHOOSE i \in listing : \A j \in listing : j <= i].cat

\* C1: in every reachable state, all Memories that share a project name other
\* than "General" have the same rootCategory, also when a classification
\* settles after the user changed projects or categories.
C1_ProjectDeterminesCategory ==
    \A i, j \in 1..Len(memories) :
        (memories[i].project = memories[j].project /\ memories[i].project # General)
            => memories[i].rootCategory = memories[j].rootCategory

\* C2: a classification whose project the captured hierarchy lists is stored
\* with that project and with the category that owns it, whatever category
\* the gateway declared.
C2_KnownProjectGetsOwner ==
    (ClassificationStored /\ Lists(SettledRequest.hierarchy, SettledResult.project))
        => /\ memories[1].project = SettledResult.project
           /\ memories[1].rootCategory =
                 OwnerOf(SettledRequest.hierarchy, SettledResult.project)

\* C2's case: categories [Travel, Life], Japan under Travel, the gateway
\* declares {Life, Japan}, and the Memory is stored under Travel.
C2_Witness ==
    /\ ClassificationStored
    /\ SettledRequest.cats = <<"Travel", "Life">>
    /\ Lists(SettledRequest.hierarchy, "Japan")
    /\ OwnerOf(SettledRequest.hierarchy, "Japan") = "Travel"
    /\ SettledResult.rootCategory = "Life"
    /\ SettledResult.project = "Japan"
    /\ memories[1].rootCategory = "Travel"
    /\ memories[1].project = "Japan"

\* C3: a classification whose project is "General", or is not listed by the
\* captured hierarchy, is stored with project "General" and with the declared
\* category when the category list holds it, else with the list's first
\* element.
C3_UnknownProjectBecomesGeneral ==
    (ClassificationStored
       /\ (SettledResult.project = General
             \/ ~Lists(SettledRequest.hierarchy, SettledResult.project)))
        => /\ memories[1].project = General
           /\ memories[1].rootCategory =
                 IF Includes(SettledRequest.cats, SettledResult.rootCategory)
                 THEN SettledResult.rootCategory
                 ELSE First(SettledRequest.cats)

\* C4: the category list is never empty, whatever sequence of
\* handleAddCategory, handleDeleteCategory and handleUpdateCategoryName runs.
C4_CategoriesNeverEmpty == Len(availableCategories) > 0

\* Whether the gateway answer is a failure: the call rejected, the answer did
\* not parse, or the parsed value violates the response schema.
FailedAnswer(kind, resp) ==
    \/ resp.kind # "json"
    \/ kind = "classify" /\ ~ClassifySchemaOk(resp.value)
    \/ kind = "plan" /\ ~PlanSchemaOk(resp.value)

\* C5: when a classification or planning request fails, the step that settles
\* it leaves the Memories, the Tasks and the categories as they were.
C5_FailedRequestChangesNothing ==
    [][(request.kind # "none" /\ request'.kind = "none"
          /\ FailedAnswer(request.kind, lastOp'.args[2]))
        => Collections' = Collections]_vars

\* Whether the trimmed name is the project of some Memory.
NameTaken(name) == Trim(name) \in ProjectsOf(memories)

\* C6 as stated: handleAddProject or handleUpdateProjectName with a name that
\* is already some Memory's project, and handleDeleteCategory on a list of one
\* category, change none of the three collections.
C6_TakenNameChangesNothing ==
    [][(\/ lastOp'.op \in {"handleAddProject", "handleUpdateProjectName"}
             /\ NameTaken(lastOp'.args[2])
        \/ lastOp'.op = "handleDeleteCategory" /\ Len(availableCategories) = 1)
        => Collections' = Collections]_vars

\* C6, amended: the same for a taken name other than "General", which the
\* uniqueness test exempts.
C6_TakenProjectNameChangesNothing ==
    [][(\/ lastOp'.op \in {"handleAddProject", "handleUpdateProjectName"}
             /\ NameTaken(lastOp'.args[2])
             /\ Trim(lastOp'.args[2]) # General
        \/ lastOp'.op = "handleDeleteCategory" /\ Len(availableCategories) = 1)
        => Collections' = Collections]_vars

\* C6's case: handleAddProject was called with a padded name whose trimmed
\* form is a Memory's project, and raised the alert.
C6_Witness ==
    /\ lastOp.op = "handleAddProject"
    /\ lastOp.alert
    /\ lastOp.args[2] = " Japan"
    /\ NameTaken(lastOp.args[2])

\* C7: every Memory without items has originalText "Manual Project Creation".
C7_EmptyMemoryIsManual ==
    \A i \in 1..Len(memories) :
        Len(memories[i].structuredContent) = 0 => memories[i].originalText = ManualText

\* The Memories a call handleDeleteMemoryItem(id, k) finds with one item, k
\* being that item: those it must remove and those it must keep empty.
OnlyItemTargets(id, k, manual) ==
    {i \in 1..Len(memories) :
        /\ memories[i].id = id
        /\ Len(memories[i].structuredContent) = 1
        /\ k = 1
        /\ (memories[i].originalText = ManualText) = manual}
CountWithId(mems, id) == Cardinality({i \in 1..Len(mems) : mems[i].id = id})

\* C8: handleDeleteMemoryItem on the only item of a Memory removes the Memory
\* when its originalText is not "Manual Project Creation", and keeps it, with
\* no items, when it is.
C8_DeletingOnlyItem ==
    [][lastOp'.op = "handleDeleteMemoryItem"
        => LET id == lastOp'.args[1]
               k  == lastOp'.args[2]
           IN  /\ CountWithId(memories', id) <=
                     CountWithId(memories, id) - Cardinality(OnlyItemTargets(id, k, FALSE))
               /\ \A i \in OnlyItemTargets(id, k, TRUE) :
                     \E j \in 1..Len(memories') :
                         memories'[j] = [memories[i] EXCEPT !.structuredContent = <<>>]]_vars

\* C8's case: the only item of a manually created Memory was deleted and the
\* Memory is still there, empty, beside a classified Memory.
C8_Witness ==
    /\ lastOp.op = "handleDeleteMemoryItem"
    /\ lastOp.args[2] = 1
    /\ \E i \in 1..Len(memories) :
          /\ memories[i].id = lastOp.args[1]
          /\ memories[i].originalText = ManualText
          /\ memories[i].structuredContent = <<>>
    /\ \E i \in 1..Len(memories) : memories[i].originalText = NoteText

\* The whole calendar days from today's midnight to the selected date.
WholeDays == (Midnight(selectedDate) - Midnight(clock)) \div HoursPerDay

\* C9: the agenda lists exactly the Tasks whose day number is the number of
\* whole calendar days from today's midnight to the selected date, plus one.
C9_AgendaListsDayNumber ==
    standardTasks = SelectSeq(tasks, LAMBDA t : t.day = WholeDays + 1)

\* C10: when two chat requests were in flight at once and the second of them
\* resolves, the chat shows the reply of the one that resolved last.
C10_LastReplyWins ==
    [][(/\ lastOp.op = "ChatResolves"
        /\ Len(chatRequests) = 1
        /\ lastOp'.op = "ChatResolves"
        /\ chatRequests' = <<>>)
        => \E i \in 1..Len(coachChat') :
              coachChat'[i].role = "model" /\ coachChat'[i].text = lastOp'.args[2]]_vars

\* C11: every Memory's rootCategory is an element of the category list.
C11_RootCategoryIsListed ==
    \A i \in 1..Len(memories) : Includes(availableCategories, memories[i].rootCategory)

\* C12: handleUpdateCategoryName(old, new) leaves no Memory with rootCategory
\* old; a Memory that had rootCategory old has rootCategory new and is
\* otherwise as it was; every other Memory is as it was; the category list
\* has new wherever it had old and is otherwise as it was.
C12_RenameCascades ==
    [][lastOp'.op = "handleUpdateCategoryName" =>
         LET old == lastOp'.args[1]
             new == lastOp'.args[2]
         IN  /\ Len(memories') = Len(memories)
             /\ \A i \in 1..Len(memories) :
                   /\ memories'[i].rootCategory # old
                   /\ memories[i].rootCategory = old =>
                         memories'[i] = [memories[i] EXCEPT !.rootCategory = new]
                   /\ memories[i].rootCategory # old => memories'[i] = memories[i]
             /\ Len(availableCategories') = Len(availableCategories)
             /\ \A i \in 1..Len(availableCategories) :
                   availableCategories'[i] =
                      IF availableCategories[i] = old THEN new ELSE availableCategories[i]
             /\ ~Includes(availableCategories', old)]_vars

\* C12's case: Travel was renamed to Life while the list was [Travel, Life]
\* and a project had been created under each of them; both Memories are now
\* under Life and the list is [Life, Life].
C12_Witness ==
    /\ lastOp.op = "handleUpdateCategoryName"
    /\ lastOp.args = <<"Travel", "Life">>
    /\ availableCategories = <<"Life", "Life">>
    /\ Len(memories) = 2
    /\ \A i \in 1..Len(memories) : memories[i].rootCategory = "Life"
    /\ memories[1].project # memories[2].project

\* The (rootCategory, project) pair reconciliation produced for the
\* classification that settled last, and the pair it produces when that pair
\* is fed back in place of the gateway's, against the same category list and
\* hierarchy.
ReconciledOnce ==
    Reconcile(SettledRequest.cats, SettledRequest.hierarchy, SettledResult)
ReconciledTwice ==
    Reconcile(SettledRequest.cats, SettledRequest.hierarchy,
              [SettledResult EXCEPT !.rootCategory = ReconciledOnce.rootCategory,
                                    !.project = ReconciledOnce.project])

\* C13: reconciling the pair that reconciliation produced returns the same
\* pair, and that pair is the one the Memory was stored with.
C13_ReconcileIdempotent ==
    ClassificationStored =>
        /\ ReconciledTwice = ReconciledOnce
        /\ memories[1].rootCategory = ReconciledOnce.rootCategory
        /\ memories[1].project = ReconciledOnce.project

\* C13's case: the gateway declared a category the list does not hold and a
\* project nobody created, reconciliation changed both, and the changed pair
\* reconciles to itself.
C13_Witness ==
    /\ ClassificationStored
    /\ SettledResult.rootCategory = "Work"
    /\ SettledResult.project = "Korea"
    /\ ReconciledOnce = [rootCategory |-> First(SettledRequest.cats), project |-> General]
    /\ ReconciledTwice = ReconciledOnce

\* The Memories that contribute to the hierarchy: those whose project is not
\* "General".
ProjectMemories == {i \in 1..Len(memories) : memories[i].project # General}

\* C14: the keys of getProjectHierarchy are the listed categories and the
\* rootCategory of every Memory with a non-"General" project, once each; the
\* value of key c is the set of non-"General" projects of the Memories with
\* rootCategory c, each project once.
C14_HierarchyContract ==
    LET h == getProjectHierarchy(availableCategories, memories)
        keys == {h[i].cat : i \in 1..Len(h)}
    IN  /\ keys = ListedCategories \cup {memories[i].rootCategory : i \in ProjectMemories}
        /\ Cardinality(keys) = Len(h)
        /\ \A i \in 1..Len(h) :
              /\ {h[i].projs[j] : j \in 1..Len(h[i].projs)} =
                    {memories[m].project :
                        m \in {n \in ProjectMemories : memories[n].rootCategory = h[i].cat}}
              /\ \A j, k \in 1..Len(h[i].projs) :
                    h[i].projs[j] = h[i].projs[k] => j = k

\* The items of a Memory after the item at index k left: the items before k
\* where they were, the items after k one position down, one item fewer.
ShiftedDown(items, k) ==
    [n \in 1..(Len(items) - 1) |-> IF n < k THEN items[n] ELSE items[n + 1]]

\* C15: handleDeleteMemoryItem(m, k), with k an index of a Memory m of at
\* least two items, leaves that Memory in the collection with the items
\* before k in place, the items after k moved down by one in their order,
\* and one item fewer.
C15_DeleteItemShiftsDown ==
    [][lastOp'.op = "handleDeleteMemoryItem" =>
         \A i \in 1..Len(memories) :
            (/\ memories[i].id = lastOp'.args[1]
             /\ Len(memories[i].structuredContent) >= 2
             /\ lastOp'.args[2] \in 1..Len(memories[i].structuredContent))
            => \E j \in 1..Len(memories') :
                  memories'[j] =
                     [memories[i] EXCEPT
                         !.structuredContent = ShiftedDown(@, lastOp'.args[2])]]_vars

\* C15's case: the first of the two items of a classified Memory was deleted
\* and the second item is now the first and only one.
C15_Witness ==
    /\ lastOp.op = "handleDeleteMemoryItem"
    /\ lastOp.args[2] = 1
    /\ \E i \in 1..Len(memories) :
          /\ memories[i].id = lastOp.args[1]
          /\ memories[i].originalText = NoteText
          /\ Len(memories[i].structuredContent) = 1
          /\ memories[i].structuredContent[1].title = ItemTitles[2]

\* C16: handleDeleteProject(P) leaves no Memory of project P, keeps every
\* other Memory as it was and in the order it was, and leaves the Tasks and
\* the category list as they were.
C16_DeleteProjectFrame ==
    [][lastOp'.op = "handleDeleteProject" =>
         /\ \A j \in 1..Len(memories') : memories'[j].project # lastOp'.args[1]
         /\ memories' = SelectSeq(memories, LAMBDA m : m.project # lastOp'.args[1])
         /\ tasks' = tasks
         /\ availableCategories' = availableCategories]_vars

\* C16's case: project Japan was deleted from a repository that held Tasks;
\* a Memory filed under "General" is still there and no Memory of Japan is.
C16_Witness ==
    /\ lastOp.op = "handleDeleteProject"
    /\ lastOp.args[1] = "Japan"
    /\ Len(tasks) > 0
    /\ Len(memories) > 0
    /\ \A i \in 1..Len(memories) : memories[i].project = General

\* C17: a failed gateway call becomes a notice the user sees.  For the chat:
\* when getAgentResponse fails, the chat holds a reply of the model (an error
\* reply, not the placeholder) right after the message that was sent.
C17_ChatFailureIsShown ==
    [][lastOp'.op = "ChatRejects" =>
         \E i \in 1..(Len(coachChat') - 1) :
            /\ coachChat'[i] = ChatMessage("user", lastOp'.args[1])
            /\ coachChat'[i + 1].role = "model"
            /\ coachChat'[i + 1].text # Thinking]_vars

\* The known tags: the listed categories and the projects of the Memories.
KnownTags ==
    ListedCategories \cup {p \in ProjectsOf(memories) : Truthy(p)}

\* The known tags T such that the text before the cursor ends in "/" and T.
TagsBeforeCursor ==
    {T \in KnownTags :
        EndsWith(Slice(inputText, 0, selectionStart), <<"/">> \o Chars(T))}

\* C18: Backspace with no selection and the text before the cursor ending in
\* "/" and a known tag removes "/" and the longest such tag, leaves the text
\* before the token and the text after the cursor as they were, and puts the
\* cursor where the token began.
C18_BackspaceRemovesToken ==
    [][(/\ lastOp'.op = "handleKeyDown"
        /\ selectionStart = selectionEnd
        /\ TagsBeforeCursor # {})
        => LET T == CHOOSE t \in TagsBeforeCursor :
                       \A u \in TagsBeforeCursor : Len(Chars(u)) <= Len(Chars(t))
               begin == selectionStart - (Len(Chars(T)) + 1)
           IN  /\ inputText' = Slice(inputText, 0, begin)
                                  \o Slice(inputText, selectionStart, Len(inputText))
               /\ selectionStart' = begin
               /\ selectionEnd' = begin]_vars

\* C18's case: with projects "B" and "A/B" known, Backspace at the end of
\* "A/A/B" removed "/A/B", not "/B" and not "B", and left "A" with the cursor
\* after it.
C18_Witness ==
    /\ lastOp.op = "handleKeyDown"
    /\ lastOp.args = <<"Backspace", <<"A", "/", "A", "/", "B">>, 5, 5>>
    /\ ProjectsOf(memories) = {"B", "A/B"}
    /\ inputText = <<"A">>
    /\ selectionStart = 1
    /\ selectionEnd = 1

\* C19: a reload from storage yields the Memories, the Tasks and the
\* categories that were in memory, field for field.
C19_ReloadRestoresCollections ==
    [][lastOp'.op = "Reload" => Collections' = Collections]_vars

\* The storage entry the component was mounted over, under the key.
MountedOver(key) == lastOp.args[1][key]

\* C20: at startup, a collection whose storage entry is absent or malformed
\* is its default, every loaded collection is an array, and no error is
\* shown.
C20_LoadYieldsArrays ==
    lastOp.op = "loadFromStorage" =>
        /\ ~lastOp.alert
        /\ \A key \in StorageKeys :
              /\ MountedOver(key).kind # "json" => Collections[key] = DefaultValue(key)
              /\ loadedShape[key] = "array"

\* The Memory collection with the status of the item at index idx of the
\* Memory at position i flipped, or as it is when that Memory has no item at
\* idx.
FlippedAt(i, idx) ==
    [memories EXCEPT ![i].structuredContent =
        IF idx \in 1..Len(@) THEN [@ EXCEPT ![idx].status = Toggled(@)] ELSE @]

\* C21: handleTaskComplete with the key of a Memory item flips the status of
\* the item at that index of one Memory, the one with that id, and changes no
\* other item, no other Memory and no Task (nothing at all when the index is
\* past the end); with a Task id it flips the status of one Task, the one with
\* that id, and changes no other Task and no Memory.
C21_ToggleFlipsOne ==
    [][lastOp'.op = "handleTaskComplete" =>
         IF lastOp'.args[2]
         THEN /\ tasks' = tasks
              /\ \E i \in 1..Len(memories) :
                    /\ memories[i].id = lastOp'.args[1][1]
                    /\ memories' = FlippedAt(i, lastOp'.args[1][2])
         ELSE /\ memories' = memories
              /\ \E i \in 1..Len(tasks) :
                    /\ tasks[i].id = lastOp'.args[1]
                    /\ tasks' = [tasks EXCEPT ![i].status = Toggled(@)]]_vars

\* The positions <<Memory, item>> of the items dated with the selected date,
\* and the place of such a position among them, Memory by Memory and item by
\* item.
DatedPositions ==
    {p \in UNION {{<<i, k>> : k \in 1..Len(memories[i].structuredContent)} :
                     i \in 1..Len(memories)} :
        LET item == memories[p[1]].structuredContent[p[2]] IN
        /\ "targetDate" \in DOMAIN item
        /\ item.targetDate = formatDate(selectedDate)}
Before(p, q) == p[1] < q[1] \/ (p[1] = q[1] /\ p[2] < q[2])
Place(p) == Cardinality({q \in DatedPositions : Before(q, p)}) + 1

\* C22: the agenda is the Tasks of the selected day in collection order,
\* then one entry for every item whose targetDate is the selected date as
\* YYYY.MM.DD, in Memory order and then item order, and nothing else.
C22_AgendaOrder ==
    /\ Len(allItems) = Len(standardTasks) + Cardinality(DatedPositions)
    /\ \A n \in 1..Len(standardTasks) :
          /\ allItems[n].id = standardTasks[n].id
          /\ ~allItems[n].isMemory
    /\ \A p \in DatedPositions :
          LET entry == allItems[Len(standardTasks) + Place(p)] IN
          /\ entry.isMemory
          /\ entry.id = <<memories[p[1]].id, p[2]>>
          /\ entry.title = memories[p[1]].structuredContent[p[2]].title

\* C22's case: the agenda of day 0 holds a Task followed by dated items of two
\* Memories, while an item dated in another format is left out.
C22_Witness ==
    /\ selectedDate = 0
    /\ Len(standardTasks) > 0
    /\ Len(memories) = 2
    /\ \E p, q \in DatedPositions : p[1] = 1 /\ q[1] = 2
    /\ \E i \in 1..Len(memories) : \E k \in 1..Len(memories[i].structuredContent) :
          TargetDate(memories[i].structuredContent[k]) = "Jan 1"
    /\ Len(allItems) = Len(standardTasks) + Cardinality(DatedPositions)

\* C23: no two Memories have the same id and no two Tasks have the same id.
C23_IdsDistinct ==
    /\ \A i, j \in 1..Len(memories) : memories[i].id = memories[j].id => i = j
    /\ \A i, j \in 1..Len(tasks) : tasks[i].id = tasks[j].id => i = j

\* C24: every Memory that passes the category filter is rendered in exactly
\* one group of the Memory Browser, once: in the flat list (the group of the
\* key General) when its project is General or missing, and otherwise in the
\* folder named by its project, under its subProject (General when missing).
C24_OneGroupPerMemory ==
    \A i \in 1..Len(memories) :
        PassesFilter(memories[i]) =>
            /\ Cardinality(Rendered(i)) = 1
            /\ \A r \in Rendered(i) :
                  /\ r[1] = GroupProject(memories[i])
                  /\ r[2] = GroupSubProject(memories[i])

\* C25: when the edit of an item is saved after another item of the same
\* Memory was deleted, the save replaces the item the edit began on, where
\* it now stands, by the edited item, and changes nothing else: no other
\* item of the Memory and no other Memory.  Memory ids are taken as pairwise
\* distinct.
C25_SaveChangesEditedItemOnly ==
    [][(/\ lastOp'.op = "handleSave"
        /\ editingCard.isEditing
        /\ \A i, j \in 1..Len(memories) : memories[i].id = memories[j].id => i = j)
        => \E i \in 1..Len(memories) :
              \E k \in 1..Len(memories[i].structuredContent) :
                  /\ memories[i].id = editingCard.memoryId
                  /\ memories[i].structuredContent[k] = editingCard.began
                  /\ memories' = [memories EXCEPT
                                     ![i].structuredContent[k] = editingCard.editedItem]]_vars

\* C26: the category list never holds the same name twice.
C26_CategoriesDistinct ==
    \A i, j \in 1..Len(availableCategories) :
        availableCategories[i] = availableCategories[j] => i = j

\* The Memories whose id is not id, in collection order.
OtherMemories(mems, id) == SelectSeq(mems, LAMBDA m : m.id # id)

\* C27: handleDeleteMemoryItem(m, k) leaves the Memories other than m as
\* they are: all present, unchanged, in the same relative order.
C27_DeleteItemFrame ==
    [][lastOp'.op = "handleDeleteMemoryItem"
        => OtherMemories(memories', lastOp'.args[1])
              = OtherMemories(memories, lastOp'.args[1])]_vars

\* Every user message of the chat is directly followed by a message of the
\* model (its placeholder or a reply): no request has been rejected.
EveryMessageAnswered(chat) ==
    \A i \in 1..Len(chat) :
        chat[i].role = "user" => (i < Len(chat) /\ chat[i + 1].role = "model")

\* C28: when the last chat request in flight resolves, and none was rejected,
\* the chat holds no "Thinking..." placeholder, and the message whose request
\* resolved is directly followed by the reply returned for it, also when
\* another message was sent before that reply arrived.
C28_EveryReplyShown ==
    [][(/\ lastOp'.op = "ChatResolves"
        /\ chatRequests' = <<>>
        /\ EveryMessageAnswered(coachChat))
        => /\ \A i \in 1..Len(coachChat') : coachChat'[i].text # Thinking
           /\ \E i \in 1..(Len(coachChat') - 1) :
                 /\ coachChat'[i] = ChatMessage("user", lastOp'.args[1])
                 /\ coachChat'[i + 1] = ChatMessage("model", lastOp'.args[2])]_vars

\* A classification or planning request is awaiting the gateway.
InFlight == request.kind # "none"

\* C29: isProcessing is true exactly while a classification or planning
\* request is in flight; handleProcessInput runs only while none is in
\* flight and sets the flag as it issues its request; when the request
\* resolves or fails the flag is false again.
C29_ProcessingWhileInFlight ==
    [][/\ isProcessing <=> InFlight
       /\ isProcessing' <=> InFlight'
       /\ lastOp'.op = "handleProcessInput" => (~InFlight /\ isProcessing')
       /\ lastOp'.op \in {"ResolveClassify", "ResolvePlan"} => (InFlight /\ ~isProcessing')
      ]_vars

\* C29's case: after a classification that stored a Memory, a planning
\* request failed with an alert and the flag is false again.
C29_Witness ==
    /\ lastOp.op = "ResolvePlan"
    /\ lastOp.alert
    /\ Len(memories) > 0
    /\ ~isProcessing
    /\ ~InFlight

\* C30: the Memory Browser's category filter is "All" or a name of the
\* category list.
C30_FilterIsListed ==
    selectedRootCategory = All \/ Includes(availableCategories, selectedRootCategory)

====
